---- MODULE Spec2Model ----
(***************************************************************************)
(* Model of aab/builder.py (Anki add-on builder): AddonBuilder.__init__     *)
(* (version resolution), build = create_dist ; build_dist ; package_dist,   *)
(* and _package (archive naming and content).                               *)
(*                                                                          *)
(* Paths are tuples of components below PATH_ROOT; Str renders a path the   *)
(* way str(pathlib.Path) does.  The working copy is the pair files/dirs,    *)
(* the build/ directory is the map build from file name to archive.         *)
(***************************************************************************)
EXTENDS Integers, Sequences, FiniteSets, TLC

VARIABLES
    pc,          \* position of the process: "start", "idle", a step name, "failed", "exited"
    frame,       \* arguments and observations of the running/last __init__ call
    version,     \* self._version
    callback,    \* self._callback_archive is set
    qt_versions, \* argument of build()
    disttype,    \* argument of build()
    files,       \* files of the working copy (paths)
    dirs,        \* directories of the working copy (paths)
    build,       \* PATH_ROOT/build: out_name -> [entries, finalized]
    stages,      \* history: version resolution and the stages the current build() entered
    steps,       \* history: steps taken by the build() call in progress
    ui_i,        \* index of the next element of qt_versions to compile
    walkErr,     \* history: directories os.walk could not list in the last _package
    ioError,     \* history: I/O failure met by the last _package ("none", "enumerate", "write")
    prev,        \* history: entries found at out_path when the last _package began
    returned,    \* value returned by the last build() ("" when none)
    builds,      \* number of build() calls started
    exit_code    \* exit status of the process (0 while running)

vars == <<pc, frame, version, callback, qt_versions, disttype, files, dirs, build,
          stages, steps, ui_i, walkErr, ioError, prev, returned, builds, exit_code>>

\* Bound: number of build() calls one process makes on its AddonBuilder.
MaxBuilds == 2

-----------------------------------------------------------------------------
(* Strings and paths *)

None == "<None>"

RECURSIVE Join(_, _)
\* sep.join(seq)
Join(seq, sep) ==
    IF Len(seq) = 0 THEN ""
    ELSE IF Len(seq) = 1 THEN seq[1]
    ELSE seq[1] \o sep \o Join(Tail(seq), sep)

\* str(pathlib.Path)
Str(p) == Join(p, "/")

\* os.path.join(root, file)
os_path_join(root, file) == root \o "/" \o file

\* Python slice s[n:]
SliceFrom(s, n) == SubSeq(s, n + 1, Len(s))

IsPrefix(p, q) == Len(p) <= Len(q) /\ SubSeq(q, 1, Len(p)) = p
Parent(p) == SubSeq(p, 1, Len(p) - 1)
Name(p) == p[Len(p)]
Under(d, S) == {p \in S : IsPrefix(d, p)}
\* d and every directory above it
Parents(d) == {SubSeq(d, 1, k) : k \in 1..Len(d)}

RECURSIVE LastDot(_, _)
\* index of the last "." of s at or before position i, 0 when there is none
LastDot(s, i) ==
    IF i = 0 THEN 0
    ELSE IF SubSeq(s, i, i) = "." THEN i
    ELSE LastDot(s, i - 1)

\* pathlib's PurePath.stem of a file name
Stem(name) ==
    LET i == LastDot(name, Len(name))
    IN  IF i <= 1 THEN name ELSE SubSeq(name, 1, i - 1)

EndsWith(s, suf) ==
    Len(s) >= Len(suf) /\ SubSeq(s, Len(s) - Len(suf) + 1, Len(s)) = suf
StartsWith(s, pre) == Len(s) >= Len(pre) /\ SubSeq(s, 1, Len(pre)) = pre

-----------------------------------------------------------------------------
(* Fixed locations and configuration *)

PATH_ROOT == <<"repo">>
PATH_DIST == PATH_ROOT \o <<"dist">>
module_name == "mod"
repo_name == "foo"

_paths_licenses == <<PATH_DIST, PATH_DIST \o <<"resources">>>>
_path_optional_icons == PATH_ROOT \o <<"resources", "icons", "optional">>
_path_changelog == PATH_DIST \o <<"CHANGELOG.md">>
_path_dist_module == PATH_DIST \o <<"src", module_name>>
_gui_path == PATH_DIST \o <<"designer">>
_trash_patterns == <<".pyc", ".pyo", "__pycache__">>

-----------------------------------------------------------------------------
(* Inputs *)

\* values of the version argument of AddonBuilder(): absent, the two
\* sentinels, and a literal
VersionArgs == {None, "dev", "current", "2.0.0"}
\* tag of the checked-out commit ("" when it has none)
HeadTags == {"", "1.2.3"}
\* what the most-recent-commit rule yields ("" when it yields nothing)
CurrentDescs == {"", "1.2.3-2-gabc"}
\* output of `git status --porcelain`
GitStatuses == {"", " M src/mod/a.py"}
\* values of qt_versions (names of QtVersion members, in the caller's order)
TargetLists == {<<>>, <<"qt5", "qt6">>, <<"qt6", "qt5">>}
DistTypes == {"local", "beta"}

\* trees git can export (paths relative to the destination)
T_full == {<<"src", "mod", "a.py">>, <<"src", "mod", "sub", "b.py">>,
           <<"src", "other", "c.py">>, <<"LICENSE">>,
           <<"resources", "LICENSE-icons.md">>, <<"CHANGELOG.md">>,
           <<"designer", "main.ui">>}
T_min == {<<"src", "mod", "a.py">>, <<"LICENSE.md">>}

\* working copies a process can start in: pristine; with bytecode trash and
\* the optional icons; with the dist tree an earlier process left behind
W_clean == [files |-> {}, dirs |-> {PATH_ROOT}]
W_trash ==
    [files |-> {PATH_ROOT \o <<"src", "mod", "a.pyc">>,
                PATH_ROOT \o <<"resources", "icons", "optional", "x.png">>},
     dirs |-> {PATH_ROOT, PATH_ROOT \o <<"src">>, PATH_ROOT \o <<"src", "mod">>,
               PATH_ROOT \o <<"resources">>, PATH_ROOT \o <<"resources", "icons">>,
               _path_optional_icons}]
W_stale ==
    [files |-> {PATH_DIST \o <<"stale.txt">>, _path_dist_module \o <<"old.py">>,
                _path_dist_module \o <<"old.pyc">>},
     dirs |-> {PATH_ROOT, PATH_DIST, PATH_DIST \o <<"src">>, _path_dist_module}]
WorkingCopies == {W_clean, W_trash, W_stale}

-----------------------------------------------------------------------------
(* Collaborators that live outside builder.py *)

\* Git().parse_version(vstring) in a repository whose checked-out commit has
\* tag headTag and whose most-recent-commit rule yields currentDesc
parse_version(vstring, headTag, currentDesc) ==
    IF vstring = None THEN (IF headTag # "" THEN headTag ELSE "dev")
    ELSE IF vstring = "current" THEN currentDesc
    ELSE vstring

\* the commit tree git archive exports for a version; "dev" exports the
\* working tree, which may be any of the trees
Exports(v) ==
    IF v = "dev" THEN {T_full, T_min}
    ELSE IF v = "2.0.0" THEN {T_min}
    ELSE {T_full}

\* Git().archive(version, dest): the files and directories it creates
git_archive(tree, dest) ==
    [files |-> {dest \o f : f \in tree},
     dirs |-> UNION {Parents(dest \o Parent(f)) : f \in tree}]

IsTrash(p) ==
    \/ EndsWith(Name(p), _trash_patterns[1])
    \/ EndsWith(Name(p), _trash_patterns[2])
    \/ \E k \in 1..Len(p) : p[k] = _trash_patterns[3]

\* purge(".", _trash_patterns, recursive=True)
purge(S) == {p \in S : ~IsTrash(p)}

\* shutil.rmtree(d)
rmtree(S, d) == {p \in S : ~IsPrefix(d, p)}

\* copy_recursively(src, dst): targets of the files below src
copy_recursively(F, src, dst) ==
    {dst \o SubSeq(f, Len(src) + 1, Len(f)) : f \in Under(src, F) \ {src}}

\* ManifestUtils.generate_and_write_manifest(..., target_dir)
manifest_file(target_dir) == target_dir \o <<"manifest.json">>

\* UIBuilder.build(qt_version): compiled forms, when there are definitions
ui_build(D, qt) ==
    IF _gui_path \in D
    THEN {_path_dist_module \o <<"gui", "forms", qt, "main.py">>}
    ELSE {}

\* UIBuilder.create_qt_shim()
qt_shim_file == _path_dist_module \o <<"gui", "forms", "__init__.py">>

-----------------------------------------------------------------------------
(* AddonBuilder.__init__ *)

\* `not self._version`
version_unusable_none_only(v) == v = None
version_unusable(v) == v = None \/ v = ""

\* lines 67-72: the version __init__ settles on
init_version_no_reresolve(arg, headTag, currentDesc, git_status) ==
    parse_version(arg, headTag, currentDesc)
init_version_ignores_status(arg, headTag, currentDesc, git_status) ==
    IF parse_version(arg, headTag, currentDesc) = "dev"
    THEN parse_version("current", headTag, currentDesc)
    ELSE parse_version(arg, headTag, currentDesc)
init_version(arg, headTag, currentDesc, git_status) ==
    LET v == parse_version(arg, headTag, currentDesc)
    IN  IF v = "dev" /\ git_status = ""
        THEN parse_version("current", headTag, currentDesc)
        ELSE v

NoFrame == [version |-> None, headTag |-> "", currentDesc |-> "", git_status |-> ""]
NoPrev == [exists |-> FALSE, entries |-> {}]

-----------------------------------------------------------------------------
(* Control flow of build() and build_dist() *)

\* lines 88-91: the stages build() calls, in order
build_order_package_first == <<"create_dist", "package_dist", "build_dist">>
build_order == <<"create_dist", "build_dist", "package_dist">>

\* lines 106-123: the steps of build_dist, in order
build_dist_steps_manifest_first ==
    <<"licenses", "changelog", "icons", "manifest", "callback", "ui", "shim">>
build_dist_steps ==
    <<"licenses", "changelog", "icons", "callback", "manifest", "ui", "shim">>

IndexOf(seq, x) == CHOOSE k \in 1..Len(seq) : seq[k] = x

\* first position of a stage
StageEntry(stage) ==
    IF stage = "create_dist" THEN "clean_repo"
    ELSE IF stage = "build_dist" THEN build_dist_steps[1]
    ELSE "package"

\* control passes to stage number k of build(), or build() returns
EnterStage(k) ==
    IF k <= Len(build_order)
    THEN /\ pc' = StageEntry(build_order[k])
         /\ stages' = Append(stages, build_order[k])
    ELSE /\ pc' = "idle"
         /\ stages' = stages

LeaveStage(stage) == EnterStage(IndexOf(build_order, stage) + 1)

\* control passes to the step after `step` of build_dist, or build_dist returns
LeaveStep(step) ==
    LET k == IndexOf(build_dist_steps, step)
    IN  IF k < Len(build_dist_steps)
        THEN pc' = build_dist_steps[k + 1] /\ stages' = stages
        ELSE LeaveStage("build_dist")

InBuild == {"clean_repo", "mkdir", "archive", "package"} \cup
           {build_dist_steps[k] : k \in 1..Len(build_dist_steps)}

-----------------------------------------------------------------------------
(* clean_repo and create_dist *)

\* lines 53-57
clean_repo_purge_only_with_dist(F, D) ==
    IF PATH_DIST \in D
    THEN [files |-> purge(rmtree(F, PATH_DIST)), dirs |-> purge(rmtree(D, PATH_DIST)),
          log |-> <<"rmtree", "purge">>]
    ELSE [files |-> F, dirs |-> D, log |-> <<>>]
clean_repo(F, D) ==
    IF PATH_DIST \in D
    THEN [files |-> purge(rmtree(F, PATH_DIST)), dirs |-> purge(rmtree(D, PATH_DIST)),
          log |-> <<"rmtree", "purge">>]
    ELSE [files |-> purge(F), dirs |-> purge(D), log |-> <<"purge">>]

-----------------------------------------------------------------------------
(* _package *)

ext == "ankiaddon"

\* line 136
qt_version_str(qs) == Join(qs, "+")

\* lines 138-144
out_name_always_suffix(repo, ver, qs, dist) ==
    repo \o "-" \o ver \o "-" \o qt_version_str(qs) \o ("-" \o dist) \o "." \o ext
out_name(repo, ver, qs, dist) ==
    repo \o "-" \o ver \o "-" \o qt_version_str(qs)
         \o (IF dist = "local" THEN "" ELSE "-" \o dist) \o "." \o ext

\* line 146
out_path(name) == PATH_ROOT \o <<"build", name>>

\* os.walk(top): the directories it visits when it cannot list those of bad
\* (errors of scandir are ignored, the directory is skipped)
WalkRoots(D, top, bad) ==
    {d \in Under(top, D) :
        \A k \in Len(top)..Len(d) : SubSeq(d, 1, k) \notin bad}

\* the (root, file) pairs os.walk yields
Walk(F, D, top, bad) ==
    UNION {{<<Str(d), Name(f)>> : f \in {g \in F : Parent(g) = d}} :
              d \in WalkRoots(D, top, bad)}

\* lines 152-156: archive name of a walked file
arcname_full_path(to_zip, root, file) == os_path_join(root, file)
arcname(to_zip, root, file) ==
    LET rootlen == Len(Str(to_zip)) + 1
        path == os_path_join(root, file)
    IN  SliceFrom(path, rootlen)

\* the entries lines 151-156 write
Entries(F, D, to_zip, bad) ==
    {arcname(to_zip, w[1], w[2]) : w \in Walk(F, D, to_zip, bad)}

\* lines 148-151: what the new archive starts from, given what is at out_path
zip_open_append(old) == old.entries
zip_open(old) == {}

\* os.walk is top-down: a file is written before any file of a directory below its own
WalkedBefore(a, b) ==
    LET da == a[1]
        db == b[1]
    IN  Len(da) < Len(db) /\ SubSeq(db, 1, Len(da) + 1) = da \o "/"

\* what can have been written when writing x fails: as little as the walk's
\* order allows (the files that come before x in every order), or as much
\* (every file that does not come after x in every order)
WrittenBefore(walked, x) ==
    {{g \in walked : WalkedBefore(g, x)},
     {g \in walked \ {x} : ~WalkedBefore(x, g)}}

-----------------------------------------------------------------------------
(* The process *)

Init ==
    /\ pc = "start"
    /\ frame = NoFrame
    /\ version = None
    /\ callback = FALSE
    /\ qt_versions = <<>>
    /\ disttype = "local"
    /\ \E w \in WorkingCopies : files = w.files /\ dirs = w.dirs
    /\ build = <<>>
    /\ stages = <<>>
    /\ steps = <<>>
    /\ ui_i = 1
    /\ walkErr = {}
    /\ ioError = "none"
    /\ prev = NoPrev
    /\ returned = ""
    /\ builds = 0
    /\ exit_code = 0

\* AddonBuilder(version=arg, callback_archive=cb), lines 66-78
Construct ==
    /\ pc = "start"
    /\ \E arg \in VersionArgs, tag \in HeadTags, cur \in CurrentDescs,
          st \in GitStatuses, cb \in BOOLEAN :
        LET v == init_version(arg, tag, cur, st)
        IN  /\ frame' = [version |-> arg, headTag |-> tag, currentDesc |-> cur,
                         git_status |-> st]
            /\ version' = v
            /\ stages' = <<"resolve">>
            /\ IF version_unusable(v)
               THEN pc' = "exited" /\ exit_code' = 1 /\ callback' = callback
               ELSE pc' = "idle" /\ exit_code' = exit_code /\ callback' = cb
    /\ UNCHANGED <<qt_versions, disttype, files, dirs, build, steps, ui_i, walkErr,
                   ioError, prev, returned, builds>>

\* builder.build(qt_versions=q, disttype=d), lines 80-88
Build ==
    /\ pc = "idle"
    /\ builds < MaxBuilds
    /\ \E q \in TargetLists, d \in DistTypes :
        /\ qt_versions' = q
        /\ disttype' = d
    /\ builds' = builds + 1
    /\ frame' = NoFrame
    /\ steps' = <<>>
    /\ ui_i' = 1
    /\ walkErr' = {}
    /\ ioError' = "none"
    /\ prev' = NoPrev
    /\ returned' = ""
    /\ pc' = StageEntry(build_order[1])
    /\ stages' = <<"resolve", build_order[1]>>
    /\ UNCHANGED <<version, callback, files, dirs, build, exit_code>>

\* clean_repo(), line 100
CleanRepo ==
    /\ pc = "clean_repo"
    /\ LET r == clean_repo(files, dirs)
       IN  /\ files' = r.files
           /\ dirs' = r.dirs
           /\ steps' = steps \o r.log
    /\ pc' = "mkdir"
    /\ UNCHANGED <<frame, version, callback, qt_versions, disttype, build, stages,
                   ui_i, walkErr, ioError, prev, returned, builds, exit_code>>

\* PATH_DIST.mkdir(parents=True), line 102: FileExistsError when it exists
MkDist ==
    /\ pc = "mkdir"
    /\ IF PATH_DIST \in dirs
       THEN pc' = "failed" /\ exit_code' = 1 /\ UNCHANGED <<dirs, steps>>
       ELSE /\ pc' = "archive"
            /\ dirs' = dirs \cup Parents(PATH_DIST)
            /\ steps' = Append(steps, "mkdir")
            /\ exit_code' = exit_code
    /\ UNCHANGED <<frame, version, callback, qt_versions, disttype, files, build,
                   stages, ui_i, walkErr, ioError, prev, returned, builds>>

\* Git().archive(self._version, PATH_DIST), line 103
GitArchive ==
    /\ pc = "archive"
    /\ \E tree \in Exports(version) :
        LET a == git_archive(tree, PATH_DIST)
        IN  files' = files \cup a.files /\ dirs' = dirs \cup a.dirs
    /\ steps' = Append(steps, "archive")
    /\ LeaveStage("create_dist")
    /\ UNCHANGED <<frame, version, callback, qt_versions, disttype, build, ui_i,
                   walkErr, ioError, prev, returned, builds, exit_code>>

\* _copy_licenses(), lines 106 and 171-178
CopyLicenses ==
    /\ pc = "licenses"
    /\ LET found == UNION {IF _paths_licenses[k] \in dirs
                           THEN {f \in files : /\ Parent(f) = _paths_licenses[k]
                                               /\ StartsWith(Name(f), "LICENSE")}
                           ELSE {} : k \in 1..Len(_paths_licenses)}
           targets == {_path_dist_module \o <<Stem(Name(f)) \o ".txt">> : f \in found}
       IN  IF targets # {} /\ _path_dist_module \notin dirs
           THEN pc' = "failed" /\ exit_code' = 1 /\ UNCHANGED <<files, steps, stages>>
           ELSE /\ files' = files \cup targets
                /\ steps' = Append(steps, "licenses")
                /\ exit_code' = exit_code
                /\ LeaveStep("licenses")
    /\ UNCHANGED <<frame, version, callback, qt_versions, disttype, dirs, build, ui_i,
                   walkErr, ioError, prev, returned, builds>>

\* lines 107-108 and 180-183
CopyChangelog ==
    /\ pc = "changelog"
    /\ IF _path_changelog \in files
       THEN /\ files' = files \cup {_path_dist_module \o <<"CHANGELOG.md">>}
            /\ steps' = Append(steps, "changelog")
       ELSE UNCHANGED <<files, steps>>
    /\ LeaveStep("changelog")
    /\ UNCHANGED <<frame, version, callback, qt_versions, disttype, dirs, build, ui_i,
                   walkErr, ioError, prev, returned, builds, exit_code>>

\* lines 109-110 and 185-189
CopyOptionalIcons ==
    /\ pc = "icons"
    /\ IF _path_optional_icons \in dirs
       THEN LET new == copy_recursively(files, _path_optional_icons,
                                        PATH_DIST \o <<"resources", "icons">>)
            IN  /\ files' = files \cup new
                /\ dirs' = dirs \cup UNION {Parents(Parent(f)) : f \in new}
                /\ steps' = Append(steps, "icons")
       ELSE UNCHANGED <<files, dirs, steps>>
    /\ LeaveStep("icons")
    /\ UNCHANGED <<frame, version, callback, qt_versions, disttype, build, ui_i,
                   walkErr, ioError, prev, returned, builds, exit_code>>

\* lines 111-112
Callback ==
    /\ pc = "callback"
    /\ steps' = IF callback THEN Append(steps, "callback") ELSE steps
    /\ LeaveStep("callback")
    /\ UNCHANGED <<frame, version, callback, qt_versions, disttype, files, dirs, build,
                   ui_i, walkErr, ioError, prev, returned, builds, exit_code>>

\* _write_manifest(disttype), lines 114 and 163-169
WriteManifest ==
    /\ pc = "manifest"
    /\ files' = files \cup {manifest_file(_path_dist_module)}
    /\ steps' = Append(steps, "manifest")
    /\ LeaveStep("manifest")
    /\ UNCHANGED <<frame, version, callback, qt_versions, disttype, dirs, build, ui_i,
                   walkErr, ioError, prev, returned, builds, exit_code>>

\* the loop of lines 118-119: one ui_builder.build per element, in order
UIBuild ==
    /\ pc = "ui"
    /\ IF ui_i <= Len(qt_versions)
       THEN LET new == ui_build(dirs, qt_versions[ui_i])
            IN  /\ files' = files \cup new
                /\ dirs' = dirs \cup UNION {Parents(Parent(f)) : f \in new}
                /\ steps' = Append(steps, "ui:" \o qt_versions[ui_i])
                /\ ui_i' = ui_i + 1
                /\ pc' = pc
                /\ stages' = stages
       ELSE /\ ui_i' = 1
            /\ LeaveStep("ui")
            /\ UNCHANGED <<files, dirs, steps>>
    /\ UNCHANGED <<frame, version, callback, qt_versions, disttype, build, walkErr,
                   ioError, prev, returned, builds, exit_code>>

\* lines 121-124
QtShim ==
    /\ pc = "shim"
    /\ IF _gui_path \in dirs
       THEN /\ files' = files \cup {qt_shim_file}
            /\ dirs' = dirs \cup Parents(Parent(qt_shim_file))
            /\ steps' = Append(steps, "shim")
       ELSE UNCHANGED <<files, dirs, steps>>
    /\ LeaveStep("shim")
    /\ UNCHANGED <<frame, version, callback, qt_versions, disttype, build, ui_i,
                   walkErr, ioError, prev, returned, builds, exit_code>>

\* what lies at the output path when _package begins
AtOutPath(name) ==
    IF name \in DOMAIN build
    THEN [exists |-> TRUE, entries |-> build[name].entries]
    ELSE NoPrev

\* directories os.walk may fail to list: none, the module directory, or one
\* directory directly below it
Unlistable ==
    {{}} \cup {{d} : d \in {e \in Under(_path_dist_module, dirs) :
                                Len(e) <= Len(_path_dist_module) + 1}}

\* _package(qt_versions, disttype), lines 129-161, returning normally.  A
\* directory that cannot be listed is skipped without an error.
Package ==
    /\ pc = "package"
    /\ LET name == out_name(repo_name, version, qt_versions, disttype)
           old == AtOutPath(name)
       IN  \E bad \in Unlistable :
            /\ build' = (name :> [entries |-> zip_open(old) \cup
                                      Entries(files, dirs, _path_dist_module, bad),
                                  finalized |-> TRUE]) @@ build
            /\ walkErr' = bad
            /\ ioError' = IF bad = {} THEN "none" ELSE "enumerate"
            /\ prev' = old
            /\ returned' = Str(out_path(name))
    /\ steps' = Append(steps, "package")
    /\ LeaveStage("package_dist")
    /\ UNCHANGED <<frame, version, callback, qt_versions, disttype, files, dirs, ui_i,
                   builds, exit_code>>

\* _package when myzip.write raises on one file: the exception leaves the
\* `with` block, whose exit closes the archive over the entries written so far
PackageWriteFails ==
    /\ pc = "package"
    /\ LET name == out_name(repo_name, version, qt_versions, disttype)
           old == AtOutPath(name)
           walked == Walk(files, dirs, _path_dist_module, {})
       IN  \E x \in walked : \E W \in WrittenBefore(walked, x) :
            /\ build' = (name :> [entries |-> zip_open(old) \cup
                                      {arcname(_path_dist_module, w[1], w[2]) : w \in W},
                                  finalized |-> TRUE]) @@ build
            /\ prev' = old
    /\ ioError' = "write"
    /\ pc' = "failed"
    /\ exit_code' = 1
    /\ UNCHANGED <<frame, version, callback, qt_versions, disttype, files, dirs, stages,
                   steps, ui_i, walkErr, returned, builds>>

\* the same when closing the archive raises as well (a full disk): the file
\* is left without its central directory
PackageCloseFails ==
    /\ pc = "package"
    /\ LET name == out_name(repo_name, version, qt_versions, disttype)
           old == AtOutPath(name)
           walked == Walk(files, dirs, _path_dist_module, {})
       IN  \E x \in walked :
            /\ build' = (name :> [entries |-> zip_open(old) \cup
                                      {arcname(_path_dist_module, w[1], w[2]) :
                                          w \in {g \in walked : WalkedBefore(g, x)}},
                                  finalized |-> FALSE]) @@ build
            /\ prev' = old
    /\ ioError' = "write"
    /\ pc' = "failed"
    /\ exit_code' = 1
    /\ UNCHANGED <<frame, version, callback, qt_versions, disttype, files, dirs, stages,
                   steps, ui_i, walkErr, returned, builds>>

\* _package when zipfile.ZipFile(...) raises: the old file is already unlinked
PackageOpenFails ==
    /\ pc = "package"
    /\ LET name == out_name(repo_name, version, qt_versions, disttype)
       IN  /\ build' = [n \in DOMAIN build \ {name} |-> build[n]]
           /\ prev' = AtOutPath(name)
    /\ ioError' = "open"
    /\ pc' = "failed"
    /\ exit_code' = 1
    /\ UNCHANGED <<frame, version, callback, qt_versions, disttype, files, dirs, stages,
                   steps, ui_i, walkErr, returned, builds>>

\* any step of build() raises before it changed anything: the exception
\* leaves build() and ends the process
Fail ==
    /\ pc \in InBuild
    /\ pc' = "failed"
    /\ exit_code' = 1
    /\ UNCHANGED <<frame, version, callback, qt_versions, disttype, files, dirs, build,
                   stages, steps, ui_i, walkErr, ioError, prev, returned, builds>>

Next ==
    \/ Construct
    \/ Build
    \/ CleanRepo
    \/ MkDist
    \/ GitArchive
    \/ CopyLicenses
    \/ CopyChangelog
    \/ CopyOptionalIcons
    \/ Callback
    \/ WriteManifest
    \/ UIBuild
    \/ QtShim
    \/ Package
    \/ PackageWriteFails
    \/ PackageCloseFails
    \/ PackageOpenFails
    \/ Fail

Spec == Init /\ [][Next]_vars

-----------------------------------------------------------------------------
(* Properties *)

IsPrefixSeq(a, b) == Len(a) <= Len(b) /\ SubSeq(b, 1, Len(a)) = a
Has(seq, x) == \E k \in 1..Len(seq) : seq[k] = x

\* the __init__ call whose arguments frame holds has returned or exited, and
\* build() has not been entered since
FrameLive == pc \in {"idle", "exited"} /\ builds = 0

\* the archive the last _package left, once build() has returned its path
LastName == out_name(repo_name, version, qt_versions, disttype)
LastEntries == build[LastName].entries

\* name of a file of the module subtree relative to the subtree's root
RelName(f) == Join(SubSeq(f, Len(_path_dist_module) + 1, Len(f)), "/")

\* files of the module subtree that an enumeration skipping the directories of
\* walkErr finds
FoundFiles ==
    {f \in files :
        /\ IsPrefix(_path_dist_module, f)
        /\ _path_dist_module \in dirs
        /\ \A k \in Len(_path_dist_module)..(Len(f) - 1) : SubSeq(f, 1, k) \notin walkErr}

\* C1: when version resolution ends with an empty version, the constructor
\* exits the process with a non-zero status before any stage of a build has
\* run: the working copy is still one a process starts in, build/ is
\* untouched, and no step (clean_repo, mkdir, export, augment, package) is
\* logged.
C1_AbortBeforeAnyFileOperation ==
    (pc # "start" /\ version = "") =>
        /\ pc = "exited"
        /\ exit_code # 0
        /\ builds = 0
        /\ steps = <<>>
        /\ stages = <<"resolve">>
        /\ [files |-> files, dirs |-> dirs] \in WorkingCopies
        /\ build = <<>>

C1_Witness ==
    /\ pc = "exited"
    /\ frame.version = None /\ frame.headTag = "" /\ frame.git_status = ""
    /\ frame.currentDesc = ""
    /\ PATH_DIST \in dirs

\* C2 (as stated): for every explicit version override the builder's version
\* is the result of resolving that override itself, whatever the working-tree
\* status is.
C2_ExplicitVersionNeverReplaced ==
    (FrameLive /\ frame.version # None) =>
        version = parse_version(frame.version, frame.headTag, frame.currentDesc)

\* C2 (amended): for every explicit version override the builder's version is
\* the result of resolving that override itself, except when that result is
\* the "dev" token and `git status --porcelain` is empty: then it is what the
\* "current" rule yields.
C2_ExplicitVersionUnlessCleanDev ==
    (FrameLive /\ frame.version # None) =>
        LET r == parse_version(frame.version, frame.headTag, frame.currentDesc)
        IN  /\ (r # "dev" \/ frame.git_status # "") => version = r
            /\ (r = "dev" /\ frame.git_status = "") => version = frame.currentDesc

C2_Witness ==
    /\ FrameLive /\ pc = "idle"
    /\ frame.version = "dev" /\ frame.git_status = ""
    /\ version = "1.2.3-2-gabc"

\* C3: with no explicit override the version is the tag when the checked-out
\* commit has one; "dev" when it has none and the working tree has
\* uncommitted changes; and what the "current" rule yields, not "dev", when it
\* has none and the working tree is clean.
C3_DefaultVersion ==
    (FrameLive /\ frame.version = None) =>
        /\ frame.headTag # "" => version = frame.headTag
        /\ (frame.headTag = "" /\ frame.git_status # "") => version = "dev"
        /\ (frame.headTag = "" /\ frame.git_status = "") =>
                version = frame.currentDesc /\ version # "dev"

C3_Witness ==
    /\ FrameLive /\ pc = "idle"
    /\ frame.version = None /\ frame.headTag = "" /\ frame.git_status = ""
    /\ version = "1.2.3-2-gabc"

RECURSIVE PlusJoined(_)
\* the target names joined by "+", built from the last name backwards
PlusJoined(qs) ==
    IF qs = <<>> THEN ""
    ELSE IF Len(qs) = 1 THEN qs[1]
    ELSE PlusJoined(SubSeq(qs, 1, Len(qs) - 1)) \o "+" \o qs[Len(qs)]

\* C4: _package writes to, and returns,
\* build/<repo_name>-<version>-<targets joined by "+"><suffix>.ankiaddon with an
\* empty suffix for dist type "local" and "-<dist type>" otherwise; foo, 1.2.3,
\* [qt5, qt6] gives foo-1.2.3-qt5+qt6.ankiaddon for local and
\* foo-1.2.3-qt5+qt6-beta.ankiaddon for beta.
C4_OutputName ==
    returned # "" =>
        LET suffix == IF disttype = "local" THEN "" ELSE "-" \o disttype
            name == repo_name \o "-" \o version \o "-" \o PlusJoined(qt_versions)
                        \o suffix \o ".ankiaddon"
        IN  /\ returned = "repo/build/" \o name
            /\ name \in DOMAIN build
            /\ (version = "1.2.3" /\ qt_versions = <<"qt5", "qt6">>) =>
                    returned = (IF disttype = "local"
                                THEN "repo/build/foo-1.2.3-qt5+qt6.ankiaddon"
                                ELSE "repo/build/foo-1.2.3-qt5+qt6-beta.ankiaddon")

C4_Witness ==
    /\ returned = "repo/build/foo-1.2.3-qt5+qt6-beta.ankiaddon"
    /\ "foo-1.2.3-qt5+qt6-beta.ankiaddon" \in DOMAIN build

\* C5: after a successful _package the entries of the archive are exactly the
\* files the enumeration found below dist/src/<module_name>, each named by its
\* path relative to that directory (a.py, sub/b.py), never with the export
\* path in front.
C5_ArchiveEntries ==
    returned # "" =>
        /\ LastEntries = {RelName(f) : f \in FoundFiles}
        /\ \A e \in LastEntries : ~StartsWith(e, Str(PATH_ROOT))
        /\ (walkErr = {} /\ _path_dist_module \o <<"sub", "b.py">> \in files) =>
                {"a.py", "sub/b.py"} \subseteq LastEntries

C5_Witness ==
    /\ returned # ""
    /\ walkErr = {}
    /\ {"a.py", "sub/b.py"} \subseteq LastEntries
    /\ PATH_DIST \o <<"src", "other", "c.py">> \in files

\* C6: when a file was at the output path as _package began, the archive there
\* afterwards holds only entries of the latest run's module subtree: no entry
\* of the earlier file that the latest subtree lacks is carried over.
C6_NoCarryOver ==
    (returned # "" /\ prev.exists) =>
        /\ build[LastName].finalized
        /\ LastEntries \subseteq {RelName(f) : f \in Under(_path_dist_module, files)}
        /\ \A e \in prev.entries :
                e \notin {RelName(f) : f \in Under(_path_dist_module, files)}
                    => e \notin LastEntries

C6_Witness ==
    /\ returned # "" /\ prev.exists
    /\ walkErr = {}
    /\ prev.entries \ LastEntries # {}

\* C7 (as stated): an I/O failure while enumerating the module subtree or
\* writing an entry fails the build, and the output path then holds no file,
\* or a file that is not a closed archive of only part of the entries.
C7_NoPartialArchive ==
    ioError \in {"enumerate", "write"} =>
        /\ pc = "failed"
        /\ \/ LastName \notin DOMAIN build
           \/ ~build[LastName].finalized
           \/ LastEntries = {RelName(f) : f \in Under(_path_dist_module, files)}

\* C8: the stages of a build run in the order version resolution, create_dist,
\* build_dist, package_dist, each at most once and none before its
\* predecessor has completed; a failure ends the build where it is: no later
\* stage has run and the dist tree is left as the failing stage left it.
C8_StagesInOrder ==
    /\ IsPrefixSeq(stages, <<"resolve", "create_dist", "build_dist", "package_dist">>)
    /\ Has(stages, "build_dist") => Has(steps, "archive")
    /\ Has(stages, "package_dist") =>
            /\ Has(steps, "manifest")
            /\ \A k \in 1..Len(qt_versions) : Has(steps, "ui:" \o qt_versions[k])
    /\ Has(steps, "package") => Has(stages, "package_dist")
    /\ returned # "" => stages = <<"resolve", "create_dist", "build_dist", "package_dist">>
    /\ pc = "failed" =>
            /\ exit_code # 0
            /\ returned = ""
            /\ Has(steps, "mkdir") => PATH_DIST \in dirs
            /\ Has(steps, "archive") => _path_dist_module \o <<"a.py">> \in files
            /\ Has(steps, "manifest") => manifest_file(_path_dist_module) \in files

C8_Witness ==
    /\ pc = "failed"
    /\ stages = <<"resolve", "create_dist", "build_dist">>
    /\ Has(steps, "manifest")
    /\ manifest_file(_path_dist_module) \in files

\* the steps build_dist has logged so far
BuildDistLog ==
    LET from == IndexOf(steps, "archive") + 1
        to == IF Has(steps, "package") THEN Len(steps) - 1 ELSE Len(steps)
    IN  SubSeq(steps, from, to)

\* C9: build_dist does, in this order: the license copy; the changelog copy
\* only if dist/CHANGELOG.md exists; the optional-icons copy only if the
\* source-root directory exists; the callback once if one was supplied; the
\* manifest; one compile per element of qt_versions in list order; last the
\* shim, only if the UI-definitions directory exists.
C9_BuildDistOrder ==
    Has(steps, "archive") =>
        LET expected ==
                <<"licenses">>
                \o (IF _path_changelog \in files THEN <<"changelog">> ELSE <<>>)
                \o (IF _path_optional_icons \in dirs THEN <<"icons">> ELSE <<>>)
                \o (IF callback THEN <<"callback">> ELSE <<>>)
                \o <<"manifest">>
                \o [k \in 1..Len(qt_versions) |-> "ui:" \o qt_versions[k]]
                \o (IF _gui_path \in dirs THEN <<"shim">> ELSE <<>>)
        IN  /\ IsPrefixSeq(BuildDistLog, expected)
            /\ (pc = "package" \/ Has(steps, "package")) => BuildDistLog = expected

C9_Witness ==
    /\ pc = "package"
    /\ callback
    /\ qt_versions = <<"qt6", "qt5">>
    /\ BuildDistLog = <<"licenses", "changelog", "icons", "callback", "manifest",
                        "ui:qt6", "ui:qt5", "shim">>

\* C10: when Git.archive is about to be called, dist exists and is empty,
\* whatever an earlier build left there, and the trash purge has run over the
\* repository whether or not dist existed.
C10_DistFreshAtExport ==
    pc = "archive" =>
        /\ PATH_DIST \in dirs
        /\ Under(PATH_DIST, files) = {}
        /\ Under(PATH_DIST, dirs) = {PATH_DIST}
        /\ Has(steps, "purge")
        /\ \A p \in files \cup dirs : ~IsTrash(p)

C10_Witness ==
    /\ pc = "archive"
    /\ builds = 2
    /\ Has(steps, "rmtree")

====
